---------------------------- MODULE Spec2Model ----------------------------
(***************************************************************************)
(* Tiles_Store: a Flask / SQLAlchemy stock and billing application         *)
(* (src/tiles_stock_app/app.py).                                           *)
(*                                                                         *)
(* The model keeps the four tables (User, Tile, Bill, BillItem), the       *)
(* cookie session of every browser, the response of the last request and   *)
(* the request-local state of a POST /billing that is between its two      *)
(* commits.  Every route is one action; POST /billing is three (the first  *)
(* commit, one loop iteration, the final commit) because other requests    *)
(* run between its commits.                                                *)
(*                                                                         *)
(* Conventions.                                                            *)
(*  - Text is a sequence of one-character strings, so that strip(), len()  *)
(*    and int() are computed and not assumed.                              *)
(*  - A form is a function from field names to text; a field that was not  *)
(*    posted is not in its DOMAIN.                                         *)
(*  - A table is a function from the ids of its rows to rows.              *)
(*  - Money is exact: prices, gst and discount are integers and Bill.total *)
(*    is held in hundredths, total = 100*s + s*gst - 100*discount, which   *)
(*    is 100 * (s + s*gst/100 - discount).  Float rounding is not          *)
(*    modelled.                                                            *)
(*  - Columns no handler branches on are left out: User.email, created_at, *)
(*    created_by; Tile.buy_price; Bill.customer_mobile, date.              *)
(*  - Primary keys are SQLite rowids (the default database,                *)
(*    app.py line 24): a new row gets max(id) + 1.                         *)
(***************************************************************************)
EXTENDS Integers, Sequences, FiniteSets, TLC

\* ------------------------------------------------------------------ bounds

\* Rows the User table may hold.
MaxUsers == 2
\* Rows the Tile table may hold.
MaxTiles == 2
\* Rows the Bill table may hold.
MaxBills == 2

Clients == {"c1", "c2"}

UserIds == 1..MaxUsers
TileIds == 1..MaxTiles
BillIds == 1..MaxBills

\* -------------------------------------------------------------------- text

T_empty    == << >>
T_admin    == <<"a","d","m","i","n">>
T_admin123 == <<"a","d","m","i","n","1","2","3">>
T_bob      == <<"b","o","b">>
T_bob_sp   == <<" ","b","o","b"," ">>
T_ab       == <<"a","b">>
T_abc      == <<"a","b","c">>
T_secret   == <<"s","e","c","r","e","t">>
T_secret_sp == <<" ","s","e","c","r","e","t">>
T_wrong    == <<"w","r","o","n","g","!">>
T_staff    == <<"s","t","a","f","f">>
T_root     == <<"r","o","o","t">>
T_Ravi     == <<"R","a","v","i">>
T_Sita     == <<"S","i","t","a">>
T_x        == <<"x">>
T_0        == <<"0">>
T_7        == <<"7">>
T_m1       == <<"-","1">>
T_18       == <<"1","8">>
T_20       == <<"2","0">>
T_sp5      == <<" ","5">>

Whitespace == {" "}
Digits == {"0","1","2","3","4","5","6","7","8","9"}

\* str.strip()
RECURSIVE LStrip(_)
LStrip(s) == IF s # << >> /\ Head(s) \in Whitespace THEN LStrip(Tail(s)) ELSE s

RECURSIVE RStrip(_)
RStrip(s) ==
    IF s # << >> /\ s[Len(s)] \in Whitespace
    THEN RStrip(SubSeq(s, 1, Len(s) - 1))
    ELSE s

Strip(s) == RStrip(LStrip(s))

DigitVal(ch) ==
    CASE ch = "0" -> 0 [] ch = "1" -> 1 [] ch = "2" -> 2 [] ch = "3" -> 3
      [] ch = "4" -> 4 [] ch = "5" -> 5 [] ch = "6" -> 6 [] ch = "7" -> 7
      [] ch = "8" -> 8 [] ch = "9" -> 9

RECURSIVE DigitsVal(_)
DigitsVal(s) ==
    IF s = << >> THEN 0
    ELSE 10 * DigitsVal(SubSeq(s, 1, Len(s) - 1)) + DigitVal(s[Len(s)])

AllDigits(s) == s # << >> /\ \A i \in 1..Len(s) : s[i] \in Digits

\* int(text), float(text): surrounding whitespace is dropped, one sign is
\* allowed, the rest must be digits; anything else raises ValueError.
\* (Decimal points, exponents, "nan" and "inf" of float() are not drawn.)
Unsigned(s) == IF s # << >> /\ Head(s) \in {"-", "+"} THEN Tail(s) ELSE s

IsNumber(s) == AllDigits(Unsigned(Strip(s)))

ParseNumber(s) ==
    LET t == Strip(s)
    IN  IF Head(t) = "-" THEN 0 - DigitsVal(Tail(t)) ELSE DigitsVal(Unsigned(t))

\* request.form.get(key, default)
Get(form, key, default) == IF key \in DOMAIN form THEN form[key] ELSE default

\* werkzeug.security: generate_password_hash / check_password_hash.  The
\* hash is a value that only the same password checks against (the salt is
\* not modelled).
generate_password_hash(password) == <<"hash", password>>

check_password_hash(pwhash, password) == pwhash = generate_password_hash(password)

\* --------------------------------------------------------------- responses

Redirect(to, msg) == [kind |-> "redirect", to |-> to, flash |-> msg]
Render(tpl, msg)  == [kind |-> "render", to |-> tpl, flash |-> msg]
Abort(code)       == [kind |-> "abort", to |-> code, flash |-> ""]
\* what a decorator yields when it lets the request through
Pass              == [kind |-> "pass", to |-> "", flash |-> ""]
NoResponse        == [kind |-> "none", to |-> "", flash |-> ""]

\* ------------------------------------------------------------------- state

VARIABLES
    users,      \* User table: id -> [username, password, role, is_active]
    tiles,      \* Tile table: id -> [brand, size, price, quantity]
    bills,      \* Bill table: id -> [customer_name, total, gst, discount]
    items,      \* BillItem table: id -> [bill_id, tile_name, size, price, quantity, total]
    session,    \* client -> the Flask session (a function of its keys)
    resp,       \* the response of the last request that finished
    req         \* client -> the POST /billing in flight, or Idle

vars == <<users, tiles, bills, items, session, resp, req>>

persisted == <<users, tiles, bills, items>>

Idle == [pc |-> "idle"]

NoSession == [k \in {} |-> ""]

\* a table without rows
NoRows == [i \in {} |-> 0]

\* the form of a request that posts no field
NoForm == [k \in {} |-> << >>]

\* the next rowid of a table
NextId(table) ==
    IF DOMAIN table = {} THEN 1
    ELSE (CHOOSE m \in DOMAIN table : \A i \in DOMAIN table : i <= m) + 1

Remove(table, id) == [i \in DOMAIN table \ {id} |-> table[i]]

\* User.query.filter_by(username=...)
UsersNamed(name) == {i \in DOMAIN users : users[i].username = name}

\* .first() of a query that found rows: the one of the lowest rowid
First(ids) == CHOOSE m \in ids : \A i \in ids : m <= i


\* a client sends its next request when its last one has been answered
Free(c) == req[c].pc = "idle"

\* -------------------------------------------------------------- decorators

\* login_required: the response of the decorator, Pass when f runs
login_required(c) ==
    IF "user_id" \notin DOMAIN session[c]
    THEN Redirect("/", "Please login to access this page")
    ELSE Pass

\* admin_required that asks for a login only
admin_required_any_role(c) ==
    IF "user_id" \notin DOMAIN session[c]
    THEN Redirect("/", "Please login to access this page")
    ELSE Pass

\* admin_required
admin_required(c) ==
    IF "user_id" \notin DOMAIN session[c]
    THEN Redirect("/", "Please login to access this page")
    ELSE IF Get(session[c], "role", "") # "admin"
    THEN Redirect("/dashboard", "Access denied. Admin privileges required.")
    ELSE Pass

\* a request that ends without a commit
Answer(r) == resp' = r /\ UNCHANGED <<persisted, session, req>>

\* -------------------------------------------------------------------- auth

\* login_check that does not look at is_active
login_check_any_account(form) ==
    LET found == UsersNamed(form["username"])
    IN  IF /\ found # {}
           /\ check_password_hash(users[First(found)].password, form["password"])
        THEN "ok"
        ELSE "invalid"

\* the credential check of POST /: "ok", "deactivated" or "invalid"
login_check(form) ==
    LET found == UsersNamed(form["username"])
    IN  IF /\ found # {}
           /\ check_password_hash(users[First(found)].password, form["password"])
        THEN IF ~users[First(found)].is_active THEN "deactivated" ELSE "ok"
        ELSE "invalid"

\* GET or POST /
login(c, method, form) ==
    /\ Free(c)
    /\ IF "user_id" \in DOMAIN session[c]
       THEN Answer(Redirect("/dashboard", ""))
       ELSE IF method = "GET"
       THEN Answer(Render("login.html", ""))
       ELSE IF ~({"username", "password"} \subseteq DOMAIN form)
       THEN Answer(Abort("400"))
       ELSE IF login_check(form) = "deactivated"
       THEN Answer(Render("login.html",
                          "Your account has been deactivated. Please contact admin."))
       ELSE IF login_check(form) = "ok"
       THEN LET u == First(UsersNamed(form["username"]))
            IN  /\ session' = [session EXCEPT ![c] =
                                 [user_id |-> u,
                                  user |-> users[u].username,
                                  role |-> users[u].role]]
                /\ resp' = Redirect("/dashboard", "Welcome back")
                /\ UNCHANGED <<persisted, req>>
       ELSE Answer(Render("login.html", "Invalid username or password"))

\* GET /logout
logout(c) ==
    /\ Free(c)
    /\ session' = [session EXCEPT ![c] = NoSession]
    /\ resp' = Redirect("/", "You have been logged out successfully")
    /\ UNCHANGED <<persisted, req>>

\* GET /dashboard
dashboard(c) ==
    /\ Free(c)
    /\ LET g == login_required(c)
       IN  IF g # Pass THEN Answer(g) ELSE Answer(Render("dashboard.html", ""))

\* --------------------------------------------------------- user management

\* GET /admin/users
user_management(c) ==
    /\ Free(c)
    /\ LET g == admin_required(c)
       IN  IF g # Pass THEN Answer(g) ELSE Answer(Render("user_management.html", ""))

\* create_user_error without the lookup of the username
create_user_error_no_lookup(form) ==
    LET username == Strip(Get(form, "username", T_empty))
        password == Get(form, "password", T_empty)
        confirm_password == Get(form, "confirm_password", T_empty)
        role == Get(form, "role", T_staff)
    IN  IF username = T_empty THEN "Username is required"
        ELSE IF Len(username) < 3 THEN "Username must be at least 3 characters"
        ELSE IF password = T_empty THEN "Password is required"
        ELSE IF Len(password) < 6 THEN "Password must be at least 6 characters"
        ELSE IF password # confirm_password THEN "Passwords do not match"
        ELSE IF role \notin {T_admin, T_staff} THEN "Invalid role selected"
        ELSE ""

\* the validation of create_user: the message flashed, "" when the form is valid
create_user_error(form) ==
    LET username == Strip(Get(form, "username", T_empty))
        password == Get(form, "password", T_empty)
        confirm_password == Get(form, "confirm_password", T_empty)
        role == Get(form, "role", T_staff)
    IN  IF username = T_empty THEN "Username is required"
        ELSE IF Len(username) < 3 THEN "Username must be at least 3 characters"
        ELSE IF UsersNamed(username) # {} THEN "Username already exists"
        ELSE IF password = T_empty THEN "Password is required"
        ELSE IF Len(password) < 6 THEN "Password must be at least 6 characters"
        ELSE IF password # confirm_password THEN "Passwords do not match"
        ELSE IF role \notin {T_admin, T_staff} THEN "Invalid role selected"
        ELSE ""

RoleName(role) == IF role = T_admin THEN "admin" ELSE "staff"

\* GET or POST /admin/users/create
create_user(c, method, form) ==
    /\ Free(c)
    /\ LET g == admin_required(c)
           err == create_user_error(form)
       IN  IF g # Pass THEN Answer(g)
           ELSE IF method = "GET" THEN Answer(Render("add_user.html", ""))
           ELSE IF err # "" THEN Answer(Render("add_user.html", err))
           ELSE /\ NextId(users) <= MaxUsers
                /\ users' = (NextId(users) :>
                               [username |-> Strip(Get(form, "username", T_empty)),
                                password |-> generate_password_hash(form["password"]),
                                role |-> RoleName(Get(form, "role", T_staff)),
                                is_active |-> TRUE]) @@ users
                /\ resp' = Redirect("/admin/users", "User created successfully!")
                /\ UNCHANGED <<tiles, bills, items, session, req>>

\* GET or POST /admin/users/<user_id>/edit
edit_user(c, user_id, method, form) ==
    /\ Free(c)
    /\ LET g == admin_required(c)
           role == Get(form, "role", T_staff)
           new_password == Strip(Get(form, "new_password", T_empty))
       IN  IF g # Pass THEN Answer(g)
           ELSE IF user_id \notin DOMAIN users THEN Answer(Abort("404"))
           ELSE IF method = "GET" THEN Answer(Render("edit_user.html", ""))
           ELSE IF role \notin {T_admin, T_staff}
           THEN Answer(Render("edit_user.html", "Invalid role selected"))
           ELSE IF new_password # T_empty /\ Len(new_password) < 6
           THEN Answer(Render("edit_user.html", "Password must be at least 6 characters"))
           ELSE /\ users' = [users EXCEPT ![user_id] =
                       [@ EXCEPT !.role = RoleName(role),
                                 !.password = IF new_password # T_empty
                                              THEN generate_password_hash(new_password)
                                              ELSE @]]
                /\ resp' = Redirect("/admin/users", "User updated successfully!")
                /\ UNCHANGED <<tiles, bills, items, session, req>>

\* is_self that protects nobody
is_self_never(c, user_id) == FALSE

\* user.id == session.get('user_id')
is_self(c, user_id) == user_id = Get(session[c], "user_id", 0)

\* POST /admin/users/<user_id>/toggle-active
toggle_user_active(c, user_id) ==
    /\ Free(c)
    /\ LET g == admin_required(c)
       IN  IF g # Pass THEN Answer(g)
           ELSE IF user_id \notin DOMAIN users THEN Answer(Abort("404"))
           ELSE IF is_self(c, user_id)
           THEN Answer(Redirect("/admin/users", "You cannot deactivate your own account"))
           ELSE /\ users' = [users EXCEPT ![user_id].is_active = ~@]
                /\ resp' = Redirect("/admin/users",
                                    IF users[user_id].is_active
                                    THEN "User has been deactivated"
                                    ELSE "User has been activated")
                /\ UNCHANGED <<tiles, bills, items, session, req>>

\* POST /admin/users/<user_id>/delete
delete_user(c, user_id) ==
    /\ Free(c)
    /\ LET g == admin_required(c)
       IN  IF g # Pass THEN Answer(g)
           ELSE IF user_id \notin DOMAIN users THEN Answer(Abort("404"))
           ELSE IF is_self(c, user_id)
           THEN Answer(Redirect("/admin/users", "You cannot delete your own account"))
           ELSE /\ users' = Remove(users, user_id)
                /\ resp' = Redirect("/admin/users", "User has been deleted")
                /\ UNCHANGED <<tiles, bills, items, session, req>>

\* ------------------------------------------------------------- tile CRUD

\* what reading the posted tile fields raises: "400" for a missing key of
\* request.form[...], "500" for the ValueError of float() or int(), "" for none;
\* in the order the handler reads them
tile_form_error(form) ==
    IF "brand" \notin DOMAIN form THEN "400"
    ELSE IF "size" \notin DOMAIN form THEN "400"
    ELSE IF "price" \notin DOMAIN form THEN "400"
    ELSE IF ~IsNumber(form["price"]) THEN "500"
    ELSE IF "quantity" \notin DOMAIN form THEN "400"
    ELSE IF ~IsNumber(form["quantity"]) THEN "500"
    ELSE ""

TileOf(form) ==
    [brand |-> form["brand"], size |-> form["size"],
     price |-> ParseNumber(form["price"]),
     quantity |-> ParseNumber(form["quantity"])]

\* GET or POST /add_tile
add_tile(c, method, form) ==
    /\ Free(c)
    /\ LET g == admin_required(c)
           err == tile_form_error(form)
       IN  IF g # Pass THEN Answer(g)
           ELSE IF method = "GET" THEN Answer(Render("add_tile.html", ""))
           ELSE IF err # "" THEN Answer(Abort(err))
           ELSE /\ NextId(tiles) <= MaxTiles
                /\ tiles' = (NextId(tiles) :> TileOf(form)) @@ tiles
                /\ resp' = Redirect("/dashboard", "Tile added successfully!")
                /\ UNCHANGED <<users, bills, items, session, req>>

\* GET or POST /edit_tile/<id>
edit_tile(c, id, method, form) ==
    /\ Free(c)
    /\ LET g == admin_required(c)
           err == tile_form_error(form)
       IN  IF g # Pass THEN Answer(g)
           ELSE IF id \notin DOMAIN tiles THEN Answer(Abort("404"))
           ELSE IF method = "GET" THEN Answer(Render("add_tile.html", ""))
           ELSE IF err # "" THEN Answer(Abort(err))
           ELSE /\ tiles' = [tiles EXCEPT ![id] = TileOf(form)]
                /\ resp' = Redirect("/dashboard", "Tile updated successfully!")
                /\ UNCHANGED <<users, bills, items, session, req>>

\* GET /delete_tile/<id>
delete_tile(c, id) ==
    /\ Free(c)
    /\ LET g == admin_required(c)
       IN  IF g # Pass THEN Answer(g)
           ELSE IF id \notin DOMAIN tiles THEN Answer(Abort("404"))
           ELSE /\ tiles' = Remove(tiles, id)
                /\ resp' = Redirect("/dashboard", "Tile deleted successfully!")
                /\ UNCHANGED <<users, bills, items, session, req>>

\* ----------------------------------------------------------------- billing

\* request.form.get('customer_name') of a form without the field
None == <<"None">>

\* subtotal + (subtotal * gst / 100) - discount, in hundredths
bill_total(subtotal, gst, discount) == 100 * subtotal + subtotal * gst - 100 * discount

\* the ids of a table in ascending order (Tile.query.all())
RECURSIVE Ascending(_)
Ascending(ids) ==
    IF ids = {} THEN << >>
    ELSE LET m == CHOOSE m \in ids : \A i \in ids : m <= i
         IN  <<m>> \o Ascending(ids \ {m})

\* func.sum(BillItem.total) over the rows ids
RECURSIVE SumTotals(_)
SumTotals(ids) ==
    IF ids = {} THEN 0
    ELSE LET i == CHOOSE i \in ids : TRUE
         IN  items[i].total + SumTotals(ids \ {i})

\* ItemsOf without the filter: the items of every bill
ItemsOf_any_bill(bill_id) == DOMAIN items

\* BillItem.query.filter_by(bill_id=...)
ItemsOf(bill_id) == {i \in DOMAIN items : items[i].bill_id = bill_id}

\* the first half of POST /billing, or GET /billing: Tile.query.all(), the
\* gst and discount fields, the empty bill and its commit
billing(c, method, form) ==
    /\ Free(c)
    /\ LET g == login_required(c)
           gst == Get(form, "gst", T_0)
           discount == Get(form, "discount", T_0)
       IN  IF g # Pass THEN Answer(g)
           ELSE IF method = "GET" THEN Answer(Render("billing.html", ""))
           ELSE IF ~IsNumber(gst) \/ ~IsNumber(discount) THEN Answer(Abort("500"))
           ELSE /\ NextId(bills) <= MaxBills
                /\ bills' = (NextId(bills) :>
                               [customer_name |-> Get(form, "customer_name", None),
                                total |-> 0,
                                gst |-> ParseNumber(gst),
                                discount |-> ParseNumber(discount)]) @@ bills
                /\ req' = [req EXCEPT ![c] =
                             [pc |-> "loop",
                              todo |-> Ascending(DOMAIN tiles),
                              bill_id |-> NextId(bills),
                              bill_loaded |-> FALSE,
                              gst |-> ParseNumber(gst),
                              discount |-> ParseNumber(discount),
                              subtotal |-> 0,
                              dirty |-> NoRows,
                              added |-> << >>]]
                /\ UNCHANGED <<users, tiles, items, session, resp>>

\* int(request.form.get(f'qty_{tile.id}', 0)) of a field int() accepts; field
\* is the part of the form that holds this tile's quantity, under the key "qty"
qty_of(field) == IF "qty" \in DOMAIN field THEN ParseNumber(field["qty"]) ELSE 0

\* line_satisfiable that asks only for some stock
line_satisfiable_some_stock(qty, tile) == qty > 0 /\ tile.quantity > 0

\* line_satisfiable with a strict comparison
line_satisfiable_strict(qty, tile) == qty > 0 /\ tile.quantity > qty

\* qty > 0 and tile.quantity >= qty
line_satisfiable(qty, tile) == qty > 0 /\ tile.quantity >= qty

\* new_item whose total is the unit price
new_item_unit_total(bill_id, tile, qty) ==
    [bill_id |-> bill_id, tile_name |-> tile.brand, size |-> tile.size,
     price |-> tile.price, quantity |-> qty, total |-> tile.price]

\* the BillItem of a line
new_item(bill_id, tile, qty) ==
    [bill_id |-> bill_id, tile_name |-> tile.brand, size |-> tile.size,
     price |-> tile.price, quantity |-> qty, total |-> tile.price * qty]

\* an exception in the second half of POST /billing: the session is rolled
\* back and removed, the response is a 500
billing_fails(c) ==
    /\ req' = [req EXCEPT ![c] = Idle]
    /\ resp' = Abort("500")
    /\ UNCHANGED <<persisted, session>>

\* one iteration of "for tile in tiles".  The first commit expired every
\* object of the session, so tile.id reloads the row (ObjectDeletedError
\* when it is gone), and so does the first bill.id.  field holds the quantity
\* field of this tile as posted (each field is read once, here).
billing_line(c, field) ==
    /\ req[c].pc = "loop"
    /\ req[c].todo # << >>
    /\ LET r == req[c]
           id == Head(r.todo)
       IN  IF id \notin DOMAIN tiles THEN billing_fails(c)
           ELSE IF "qty" \in DOMAIN field /\ ~IsNumber(field["qty"]) THEN billing_fails(c)
           ELSE IF ~line_satisfiable(qty_of(field), tiles[id])
           THEN /\ req' = [req EXCEPT ![c].todo = Tail(r.todo)]
                /\ UNCHANGED <<persisted, session, resp>>
           ELSE IF ~r.bill_loaded /\ r.bill_id \notin DOMAIN bills THEN billing_fails(c)
           ELSE LET qty == qty_of(field)
                    item == new_item(r.bill_id, tiles[id], qty)
                IN  /\ req' = [req EXCEPT ![c] =
                                 [r EXCEPT
                                    !.todo = Tail(r.todo),
                                    !.bill_loaded = TRUE,
                                    !.subtotal = r.subtotal + item.total,
                                    !.dirty = (id :> [old |-> tiles[id].quantity,
                                                      quantity |-> tiles[id].quantity - qty])
                                              @@ r.dirty,
                                    !.added = Append(r.added, item)]]
                    /\ UNCHANGED <<persisted, session, resp>>

\* written_quantity as a decrement of the row as it is at the flush
written_quantity_in_place(row, staged) == row.quantity - (staged.old - staged.quantity)

\* the value the UPDATE of the flush gives Tile.quantity: the one
\* "tile.quantity -= qty" computed from the quantity it had loaded
written_quantity(row, staged) == staged.quantity

\* billing_commit whose flush does not notice that the bill or a tile is gone
billing_commit_unchecked(c) ==
    /\ req[c].pc = "loop"
    /\ req[c].todo = << >>
    /\ LET r == req[c]
           n == NextId(items) - 1
       IN  /\ tiles' = [id \in DOMAIN tiles |->
                           IF id \in DOMAIN r.dirty
                           THEN [tiles[id] EXCEPT !.quantity = r.dirty[id].quantity]
                           ELSE tiles[id]]
           /\ items' = [i \in (n + 1)..(n + Len(r.added)) |-> r.added[i - n]] @@ items
           /\ bills' = [b \in DOMAIN bills |->
                           IF b = r.bill_id
                           THEN [bills[b] EXCEPT
                                   !.total = bill_total(r.subtotal, r.gst, r.discount)]
                           ELSE bills[b]]
           /\ req' = [req EXCEPT ![c] = Idle]
           /\ resp' = Redirect("/invoice", "")
           /\ UNCHANGED <<users, session>>

\* bill.total and the final commit: the flush updates the quantity of every
\* tile the loop changed, inserts the items and updates the bill; a row that
\* is gone by then makes it raise (StaleDataError) and nothing is written
billing_commit(c) ==
    /\ req[c].pc = "loop"
    /\ req[c].todo = << >>
    /\ LET r == req[c]
           n == NextId(items) - 1
       IN  IF r.bill_id \notin DOMAIN bills \/ ~(DOMAIN r.dirty \subseteq DOMAIN tiles)
           THEN billing_fails(c)
           ELSE /\ tiles' = [id \in DOMAIN tiles |->
                               IF id \in DOMAIN r.dirty
                               THEN [tiles[id] EXCEPT
                                       !.quantity = written_quantity(tiles[id], r.dirty[id])]
                               ELSE tiles[id]]
                /\ items' = [i \in (n + 1)..(n + Len(r.added)) |-> r.added[i - n]] @@ items
                /\ bills' = [bills EXCEPT ![r.bill_id].total =
                               bill_total(r.subtotal, r.gst, r.discount)]
                /\ req' = [req EXCEPT ![c] = Idle]
                /\ resp' = Redirect("/invoice", "")
                /\ UNCHANGED <<users, session>>

\* GET /invoice/<bill_id>
invoice(c, bill_id) ==
    /\ Free(c)
    /\ LET g == login_required(c)
       IN  IF g # Pass THEN Answer(g)
           ELSE IF bill_id \notin DOMAIN bills THEN Answer(Abort("404"))
           ELSE Answer(Render("invoice.html", ""))

\* GET /invoice_pdf/<bill_id>
invoice_pdf(c, bill_id) ==
    /\ Free(c)
    /\ LET g == login_required(c)
       IN  IF g # Pass THEN Answer(g)
           ELSE IF bill_id \notin DOMAIN bills THEN Answer(Abort("404"))
           ELSE Answer(Render("invoice_pdf.html", ""))

\* GET /stock_availability_pdf
stock_availability_pdf(c) ==
    /\ Free(c)
    /\ LET g == admin_required(c)
       IN  IF g # Pass THEN Answer(g)
           ELSE Answer(Render("stock_availability_pdf.html", ""))

\* GET /history
history(c) ==
    /\ Free(c)
    /\ LET g == login_required(c)
       IN  IF g # Pass THEN Answer(g) ELSE Answer(Render("history.html", ""))

\* GET /sales_report
sales_report(c) ==
    /\ Free(c)
    /\ LET g == login_required(c)
       IN  IF g # Pass THEN Answer(g) ELSE Answer(Render("sales_report.html", ""))

\* what reading the posted bill fields raises, as tile_form_error
bill_form_error(form) ==
    IF "customer_name" \notin DOMAIN form THEN "400"
    ELSE IF "gst" \notin DOMAIN form THEN "400"
    ELSE IF ~IsNumber(form["gst"]) THEN "500"
    ELSE IF "discount" \notin DOMAIN form THEN "400"
    ELSE IF ~IsNumber(form["discount"]) THEN "500"
    ELSE ""

\* GET or POST /edit_bill/<bill_id>
edit_bill(c, bill_id, method, form) ==
    /\ Free(c)
    /\ LET g == admin_required(c)
           err == bill_form_error(form)
       IN  IF g # Pass THEN Answer(g)
           ELSE IF bill_id \notin DOMAIN bills THEN Answer(Abort("404"))
           ELSE IF method = "GET" THEN Answer(Render("edit_bill.html", ""))
           ELSE IF err # "" THEN Answer(Abort(err))
           ELSE /\ bills' = [bills EXCEPT ![bill_id] =
                       [customer_name |-> form["customer_name"],
                        gst |-> ParseNumber(form["gst"]),
                        discount |-> ParseNumber(form["discount"]),
                        total |-> bill_total(SumTotals(ItemsOf(bill_id)),
                                             ParseNumber(form["gst"]),
                                             ParseNumber(form["discount"]))]]
                /\ resp' = Redirect("/history", "Bill updated successfully")
                /\ UNCHANGED <<users, tiles, items, session, req>>

\* delete_bill that removes the Bill row and leaves its BillItem rows
delete_bill_keeping_items(c, bill_id) ==
    /\ Free(c)
    /\ LET g == admin_required(c)
       IN  IF g # Pass THEN Answer(g)
           ELSE IF bill_id \notin DOMAIN bills THEN Answer(Abort("404"))
           ELSE /\ bills' = Remove(bills, bill_id)
                /\ resp' = Redirect("/history", "Bill deleted successfully")
                /\ UNCHANGED <<users, tiles, items, session, req>>

\* GET /delete_bill/<bill_id>
delete_bill(c, bill_id) ==
    /\ Free(c)
    /\ LET g == admin_required(c)
       IN  IF g # Pass THEN Answer(g)
           ELSE IF bill_id \notin DOMAIN bills THEN Answer(Abort("404"))
           ELSE /\ items' = [i \in DOMAIN items \ ItemsOf(bill_id) |-> items[i]]
                /\ bills' = Remove(bills, bill_id)
                /\ resp' = Redirect("/history", "Bill deleted successfully")
                /\ UNCHANGED <<users, tiles, session, req>>

\* ---------------------------------------------------------- request inputs


\* the forms posted to /
LoginForms ==
    {[username |-> u, password |-> p] :
        u \in {T_admin, T_bob}, p \in {T_admin123, T_secret, T_wrong}}
    \cup {[username |-> T_admin]}

\* the forms posted to /admin/users/create: one per validation branch, and
\* the valid ones
CreateUserForms ==
    {[username |-> T_bob_sp, password |-> T_secret, confirm_password |-> T_secret,
      role |-> T_admin],
     [username |-> T_bob, password |-> T_secret, confirm_password |-> T_secret],
     [username |-> T_admin, password |-> T_secret, confirm_password |-> T_secret,
      role |-> T_admin],
     [password |-> T_secret, confirm_password |-> T_secret],
     [username |-> T_ab, password |-> T_secret, confirm_password |-> T_secret],
     [username |-> T_bob],
     [username |-> T_bob, password |-> T_abc, confirm_password |-> T_abc],
     [username |-> T_bob, password |-> T_wrong, confirm_password |-> T_secret],
     [username |-> T_bob, password |-> T_secret, confirm_password |-> T_secret,
      role |-> T_root]}

\* the forms posted to /admin/users/<id>/edit
EditUserForms ==
    {[role |-> T_admin, new_password |-> T_empty],
     [role |-> T_staff, new_password |-> T_secret_sp],
     [new_password |-> T_empty],
     [role |-> T_root, new_password |-> T_empty],
     [role |-> T_staff, new_password |-> T_abc]}

\* ---------------------------------------------------------- initial states

\* init_db: the default admin of an empty User table
DefaultAdmin ==
    [username |-> T_admin, password |-> generate_password_hash(T_admin123),
     role |-> "admin", is_active |-> TRUE]

Init ==
    /\ users = (1 :> DefaultAdmin)
    /\ tiles = NoRows
    /\ bills = NoRows
    /\ items = NoRows
    /\ session = [c \in Clients |-> NoSession]
    /\ resp = NoResponse
    /\ req = [c \in Clients |-> Idle]

\* ------------------------------------------ accounts and sessions (SpecUsers)

NextUsers ==
    \E c \in Clients :
        \/ \E f \in LoginForms : login(c, "POST", f)
        \/ logout(c)
        \/ \E f \in CreateUserForms : create_user(c, "POST", f)
        \/ \E u \in UserIds, f \in EditUserForms : edit_user(c, u, "POST", f)
        \/ \E u \in UserIds : toggle_user_active(c, u)
        \/ \E u \in UserIds : delete_user(c, u)

SpecUsers == Init /\ [][NextUsers]_vars

\* ------------------------------------------- stock and bills (SpecBilling)

T_A   == <<"A">>
T_B   == <<"B">>
T_2x2 == <<"2","x","2">>
T_1x1 == <<"1","x","1">>
T_100 == <<"1","0","0">>
T_50  == <<"5","0">>
T_10  == <<"1","0">>

\* the forms posted to /add_tile and /edit_tile/<id>
TileForms ==
    {[brand |-> T_B, size |-> T_1x1, price |-> T_50, quantity |-> T_7],
     [brand |-> T_A, size |-> T_2x2, quantity |-> T_10],
     [brand |-> T_A, size |-> T_2x2, price |-> T_x, quantity |-> T_10]}

\* the forms posted to /billing, without their qty_<id> fields
BillingForms ==
    {[customer_name |-> T_Ravi, gst |-> T_18, discount |-> T_20],
     [customer_name |-> T_Ravi],
     [customer_name |-> T_Ravi, gst |-> T_x, discount |-> T_20]}

\* the qty_<id> field of a form posted to /billing: not posted, or one of these
QtyFields ==
    {NoForm} \cup {[qty |-> q] : q \in {T_sp5, T_7, T_m1, T_x}}

\* the forms posted to /edit_bill/<bill_id>
EditBillForms ==
    {[customer_name |-> T_Sita, gst |-> T_7, discount |-> T_20],
     [customer_name |-> T_Sita, gst |-> T_18],
     [customer_name |-> T_Sita, gst |-> T_x, discount |-> T_0]}

Staff ==
    [username |-> T_bob, password |-> generate_password_hash(T_secret),
     role |-> "staff", is_active |-> TRUE]

TileA == [brand |-> T_A, size |-> T_2x2, price |-> 100, quantity |-> 10]

\* The shop at work: the admin has created a staff account and the first
\* tile, the staff member is logged in on c1 and the admin on c2.
InitBilling ==
    /\ users = (1 :> DefaultAdmin) @@ (2 :> Staff)
    /\ tiles = (1 :> TileA)
    /\ bills = NoRows
    /\ items = NoRows
    /\ session = [c \in Clients |->
                    IF c = "c1"
                    THEN [user_id |-> 2, user |-> T_bob, role |-> "staff"]
                    ELSE [user_id |-> 1, user |-> T_admin, role |-> "admin"]]
    /\ resp = NoResponse
    /\ req = [c \in Clients |-> Idle]

\* two sessions bill while the admin maintains the catalog
NextBilling ==
    \E c \in Clients :
        \/ \E f \in BillingForms : billing(c, "POST", f)
        \/ \E f \in QtyFields : billing_line(c, f)
        \/ billing_commit(c)
        \/ \E f \in TileForms : add_tile(c, "POST", f)
        \/ \E t \in TileIds, f \in TileForms : edit_tile(c, t, "POST", f)
        \/ \E t \in TileIds : delete_tile(c, t)

SpecBilling == InitBilling /\ [][NextBilling]_vars

\* -------------------------------------------------- bill upkeep (SpecBills)

\* two sessions bill while the admin edits and deletes bills
NextBills ==
    \E c \in Clients :
        \/ \E f \in BillingForms : billing(c, "POST", f)
        \/ \E f \in QtyFields : billing_line(c, f)
        \/ billing_commit(c)
        \/ \E b \in BillIds, f \in EditBillForms : edit_bill(c, b, "POST", f)
        \/ \E b \in BillIds : delete_bill(c, b)

SpecBills == InitBilling /\ [][NextBills]_vars

\* ----------------------------------------- bills and catalog (SpecUpkeep)

\* the qty_<id> fields posted here: not posted, a quantity in stock, a
\* malformed one
UpkeepQtyFields == {NoForm, [qty |-> T_7], [qty |-> T_x]}

\* two sessions bill while the admin edits and deletes bills and tiles
NextUpkeep ==
    \E c \in Clients :
        \/ \E f \in BillingForms : billing(c, "POST", f)
        \/ \E f \in UpkeepQtyFields : billing_line(c, f)
        \/ billing_commit(c)
        \/ \E b \in BillIds, f \in EditBillForms : edit_bill(c, b, "POST", f)
        \/ \E b \in BillIds : delete_bill(c, b)
        \/ \E t \in TileIds, f \in TileForms : edit_tile(c, t, "POST", f)
        \/ \E t \in TileIds : delete_tile(c, t)

SpecUpkeep == InitBilling /\ [][NextUpkeep]_vars

\* ------------------------------------------------------- the whole application

Pages(c) ==
    \/ login(c, "GET", NoForm)
    \/ dashboard(c)
    \/ user_management(c)
    \/ create_user(c, "GET", NoForm)
    \/ \E u \in UserIds : edit_user(c, u, "GET", NoForm)
    \/ add_tile(c, "GET", NoForm)
    \/ \E t \in TileIds : edit_tile(c, t, "GET", NoForm)
    \/ billing(c, "GET", NoForm)
    \/ \E b \in BillIds : invoice(c, b)
    \/ \E b \in BillIds : invoice_pdf(c, b)
    \/ stock_availability_pdf(c)
    \/ history(c)
    \/ sales_report(c)
    \/ \E b \in BillIds : edit_bill(c, b, "GET", NoForm)

Next == NextUsers \/ NextBilling \/ NextBills \/ \E c \in Clients : Pages(c)

Spec == Init /\ [][Next]_vars

\* ----------------------------------------- requests without an admin (SpecGate)

Bill1 == [customer_name |-> T_Ravi, total |-> 57000, gst |-> 18, discount |-> 20]

Item1 ==
    [bill_id |-> 1, tile_name |-> T_A, size |-> T_2x2, price |-> 100,
     quantity |-> 5, total |-> 500]

\* A shop nobody can administer any more: a second admin deactivated the
\* default admin, made itself staff and logged out.  One bill has been made.
InitGate ==
    /\ users = (1 :> [DefaultAdmin EXCEPT !.is_active = FALSE]) @@ (2 :> Staff)
    /\ tiles = (1 :> [TileA EXCEPT !.quantity = 5])
    /\ bills = (1 :> Bill1)
    /\ items = (1 :> Item1)
    /\ session = [c \in Clients |-> NoSession]
    /\ resp = NoResponse
    /\ req = [c \in Clients |-> Idle]

SpecGate == InitGate /\ [][Next]_vars

\* ===================================================================== claims

\* c's POST /billing has taken a step
BillingStepOf(c) == req[c].pc = "loop" /\ req'[c] # req[c]

\* the step of c was an exception in the second half of POST /billing
BillingFailed(c) ==
    /\ req[c].pc = "loop"
    /\ req'[c] = Idle
    /\ resp' = Abort("500")
    /\ UNCHANGED persisted

\* the step of c was its final commit
BillingCommitted(c) ==
    /\ req[c].pc = "loop"
    /\ req[c].todo = << >>
    /\ req'[c] = Idle
    /\ resp' = Redirect("/invoice", "")

RECURSIVE SumQuantities(_)
SumQuantities(ids) ==
    IF ids = {} THEN 0
    ELSE LET i == CHOOSE i \in ids : TRUE
         IN  items[i].quantity + SumQuantities(ids \ {i})

\* C1: whatever is billed, in whatever order and interleaving, no tile's
\* on-hand quantity is negative (the catalog starts, and is restocked, with
\* quantities >= 0).
C1_QuantityNeverNegative == \A t \in DOMAIN tiles : tiles[t].quantity >= 0

\* a bill has sold a tile out: its quantity is 0 and a line of it is persisted
C1_SoldOut ==
    \E t \in DOMAIN tiles, i \in DOMAIN items :
        /\ tiles[t].quantity = 0
        /\ items[i].tile_name = tiles[t].brand
        /\ items[i].quantity > 0

\* C2 (as claimed): in every persisted state every bill's total is
\* subtotal + subtotal*gst/100 - discount over the BillItems persisted for it.
C2_TotalMatchesItems ==
    \A b \in DOMAIN bills :
        bills[b].total =
            bill_total(SumTotals(ItemsOf(b)), bills[b].gst, bills[b].discount)

\* C3 (as claimed): a billing transaction is atomic.  No Bill row is
\* persisted while the transaction that makes it is still running, and a
\* transaction that fails leaves no Bill row.
C3_BillingAtomic ==
    [][\A c \in Clients :
          /\ req'[c].pc = "loop" => req'[c].bill_id \notin DOMAIN bills'
          /\ BillingFailed(c) => req[c].bill_id \notin DOMAIN bills']_vars

\* C4: a line is billed if and only if 0 < q <= s.  A line with q <= 0, q not
\* posted or q > s stages no BillItem and no stock change and raises nothing;
\* the final commit changes no tile but the staged ones, inserts the staged
\* items only, and a transaction without a satisfiable line ends in a bill
\* whose total is -discount.
C4_UnsatisfiableLinesSkipped ==
    [][\A c \in Clients :
          LET r == req[c]
          IN  /\ \A f \in QtyFields :
                    ( /\ billing_line(c, f)
                      /\ Head(r.todo) \in DOMAIN tiles
                      /\ "qty" \in DOMAIN f => IsNumber(f["qty"]) )
                    => LET q == qty_of(f)
                           s == tiles[Head(r.todo)].quantity
                       IN  IF 0 < q /\ q <= s
                           THEN /\ Len(req'[c].added) = Len(r.added) + 1
                                /\ DOMAIN req'[c].dirty = DOMAIN r.dirty \cup {Head(r.todo)}
                           ELSE /\ req'[c] = [r EXCEPT !.todo = Tail(r.todo)]
                                /\ resp' = resp
                                /\ UNCHANGED persisted
              /\ (BillingCommitted(c) /\ billing_commit(c))
                    => /\ \A t \in DOMAIN tiles \ DOMAIN r.dirty :
                            t \in DOMAIN tiles' /\ tiles'[t] = tiles[t]
                       /\ Cardinality(DOMAIN items') = Cardinality(DOMAIN items) + Len(r.added)
                       /\ Len(r.added) = Cardinality(DOMAIN r.dirty)
                       /\ r.added = << >> =>
                            /\ bills'[r.bill_id].total = 0 - 100 * bills[r.bill_id].discount
                            /\ tiles' = tiles
                            /\ items' = items
              /\ (BillingStepOf(c) /\ r.todo = << >> /\ r.added = << >>)
                    => BillingCommitted(c)]_vars

\* a transaction that had no satisfiable line has ended in a bill of total
\* -discount while the stock it asked for is still there
C4_EmptyBill ==
    \E b \in DOMAIN bills :
        /\ ItemsOf(b) = {}
        /\ bills[b].discount = 20
        /\ bills[b].total = 0 - 2000
        /\ \A c \in Clients : req[c].pc = "idle"

\* C5: a satisfiable line (0 < q <= on-hand s) stages exactly one BillItem,
\* with the tile's brand, size and price of that moment, quantity q and total
\* price*q, and the quantity s - q; the final commit persists exactly these.
\* A bill of one line of 5 at price 100 from a stock of 10, gst 18, discount
\* 20, has total 570 and leaves 5.
C5_SatisfiableLineBilled ==
    [][\A c \in Clients :
          LET r == req[c]
          IN  /\ \A f \in QtyFields :
                    ( /\ billing_line(c, f)
                      /\ Head(r.todo) \in DOMAIN tiles
                      /\ "qty" \in DOMAIN f => IsNumber(f["qty"])
                      /\ 0 < qty_of(f)
                      /\ qty_of(f) <= tiles[Head(r.todo)].quantity )
                    => LET q == qty_of(f)
                           t == tiles[Head(r.todo)]
                       IN  /\ req'[c].added = Append(r.added,
                                [bill_id |-> r.bill_id, tile_name |-> t.brand,
                                 size |-> t.size, price |-> t.price,
                                 quantity |-> q, total |-> t.price * q])
                           /\ req'[c].dirty[Head(r.todo)] =
                                [old |-> t.quantity, quantity |-> t.quantity - q]
                           /\ req'[c].subtotal = r.subtotal + t.price * q
              /\ (BillingCommitted(c) /\ billing_commit(c))
                    => /\ \A t \in DOMAIN r.dirty :
                            tiles'[t].quantity = r.dirty[t].quantity
                       /\ \A k \in 1..Len(r.added) :
                            \E i \in DOMAIN items' \ DOMAIN items : items'[i] = r.added[k]
                       /\ \A i \in DOMAIN items : items'[i] = items[i]
                       /\ bills'[r.bill_id].total =
                            100 * r.subtotal + r.subtotal * r.gst - 100 * r.discount
                       /\ ( /\ Len(r.added) = 1
                            /\ r.added[1].price = 100 /\ r.added[1].quantity = 5
                            /\ r.gst = 18 /\ r.discount = 20
                            /\ \E t \in DOMAIN r.dirty : r.dirty[t].old = 10 )
                          => /\ bills'[r.bill_id].total = 57000
                             /\ \E t \in DOMAIN r.dirty : tiles'[t].quantity = 5]_vars

\* the scenario's end: the bill of total 570 with its one line of 5 at 100,
\* and 5 left of the tile
C5_Scenario ==
    \E b \in DOMAIN bills, t \in DOMAIN tiles :
        /\ bills[b].total = 57000
        /\ \E i \in ItemsOf(b) :
              items[i] = [bill_id |-> b, tile_name |-> tiles[t].brand,
                          size |-> tiles[t].size, price |-> 100,
                          quantity |-> 5, total |-> 500]
        /\ Cardinality(ItemsOf(b)) = 1
        /\ tiles[t].quantity = 5

\* C6: nothing locks or conditionally updates the quantity.  The final commit
\* of a transaction whose rows still exist succeeds whatever the tile's
\* quantity has become since the line read it, and writes the quantity the
\* line computed; so two transactions that read the same quantity both
\* succeed and the decrement of the first to commit is lost.
C6_CommitIgnoresCurrentQuantity ==
    [][\A c \in Clients :
          LET r == req[c]
          IN  ( /\ billing_commit(c)
                /\ r.bill_id \in DOMAIN bills
                /\ DOMAIN r.dirty \subseteq DOMAIN tiles )
              => /\ BillingCommitted(c)
                 /\ \A t \in DOMAIN r.dirty :
                       tiles'[t].quantity = r.dirty[t].quantity
                 /\ \A k \in 1..Len(r.added) :
                       \E i \in DOMAIN items' \ DOMAIN items : items'[i] = r.added[k]]_vars

\* more of tile A is billed than ever was in stock: A comes from InitBilling
\* (TileA) alone, no form of TileForms restocks it
C6_Oversold ==
    SumQuantities({i \in DOMAIN items : items[i].tile_name = T_A}) > TileA.quantity

Methods == {"GET", "POST"}

\* c sends a request to an admin-only route
AdminRequest(c) ==
    \/ user_management(c)
    \/ \E m \in Methods, f \in CreateUserForms \cup {NoForm} : create_user(c, m, f)
    \/ \E u \in UserIds, m \in Methods, f \in EditUserForms \cup {NoForm} :
          edit_user(c, u, m, f)
    \/ \E u \in UserIds : toggle_user_active(c, u) \/ delete_user(c, u)
    \/ \E m \in Methods, f \in TileForms \cup {NoForm} : add_tile(c, m, f)
    \/ \E t \in TileIds, m \in Methods, f \in TileForms \cup {NoForm} :
          edit_tile(c, t, m, f)
    \/ \E t \in TileIds : delete_tile(c, t)
    \/ stock_availability_pdf(c)
    \/ \E b \in BillIds, m \in Methods, f \in EditBillForms \cup {NoForm} :
          edit_bill(c, b, m, f)
    \/ \E b \in BillIds : delete_bill(c, b)

\* c sends a request to a route that asks for a login only
LoginRequest(c) ==
    \/ dashboard(c)
    \/ \E m \in Methods, f \in BillingForms \cup {NoForm} : billing(c, m, f)
    \/ \E b \in BillIds : invoice(c, b) \/ invoice_pdf(c, b)
    \/ history(c)
    \/ sales_report(c)

LoggedIn(c) == "user_id" \in DOMAIN session[c]

IsAdminSession(c) == LoggedIn(c) /\ session[c]["role"] = "admin"

\* C7: a request to an admin-only route from a client without a session, or
\* with a session whose role is not admin, is answered by a redirect and
\* changes no row of Users, Tiles, Bills or BillItems; a request to any other
\* route but login and logout from a client without a session is redirected
\* to the login page and changes no row.
C7_GatedRequestsChangeNothing ==
    [][\A c \in Clients :
          /\ (AdminRequest(c) /\ ~IsAdminSession(c))
                => /\ resp'.kind = "redirect"
                   /\ resp'.to = IF LoggedIn(c) THEN "/dashboard" ELSE "/"
                   /\ UNCHANGED <<persisted, session, req>>
          /\ ((AdminRequest(c) \/ LoginRequest(c)) /\ ~LoggedIn(c))
                => /\ resp' = Redirect("/", "Please login to access this page")
                   /\ UNCHANGED <<persisted, session, req>>]_vars

\* a staff session has been turned away from an admin-only route
C7_StaffDenied ==
    /\ resp = Redirect("/dashboard", "Access denied. Admin privileges required.")
    /\ \E c \in Clients : LoggedIn(c) /\ session[c]["role"] = "staff"

\* C8: an admin who asks to toggle or delete the user id of their own session
\* is turned away and the User table is unchanged; and no toggle or delete
\* request changes or removes the row of the requesting session's user id.
C8_OwnAccountProtected ==
    [][\A c \in Clients, u \in UserIds :
          /\ ( /\ IsAdminSession(c) /\ u \in DOMAIN users /\ session[c]["user_id"] = u
               /\ toggle_user_active(c, u) )
                => /\ users' = users
                   /\ resp' = Redirect("/admin/users", "You cannot deactivate your own account")
          /\ ( /\ IsAdminSession(c) /\ u \in DOMAIN users /\ session[c]["user_id"] = u
               /\ delete_user(c, u) )
                => /\ users' = users
                   /\ resp' = Redirect("/admin/users", "You cannot delete your own account")
          /\ ( /\ LoggedIn(c) /\ session[c]["user_id"] \in DOMAIN users
               /\ toggle_user_active(c, u) \/ delete_user(c, u) )
                => /\ session[c]["user_id"] \in DOMAIN users'
                   /\ users'[session[c]["user_id"]] = users[session[c]["user_id"]]]_vars

\* an admin has asked to deactivate their own account and has been turned away
C8_SelfToggleRejected ==
    /\ resp = Redirect("/admin/users", "You cannot deactivate your own account")
    /\ \E c \in Clients :
          IsAdminSession(c) /\ session[c]["user_id"] \in DOMAIN users

\* C9: no two User rows share a username, and a create_user whose (stripped)
\* username is that of a row is answered "Username already exists" and
\* writes nothing.
C9_UsernamesUnique ==
    [][/\ \A i, j \in DOMAIN users' :
             i # j => users'[i].username # users'[j].username
       /\ \A c \in Clients :
             IsAdminSession(c) =>
                \A f \in CreateUserForms :
                   LET username == Strip(Get(f, "username", T_empty))
                   IN  ( /\ \E i \in DOMAIN users : users[i].username = username
                         /\ create_user(c, "POST", f) )
                       => /\ users' = users
                          /\ resp' = Render("add_user.html", "Username already exists")]_vars

\* a create_user for a taken username has been refused
C9_DuplicateRefused ==
    /\ resp = Render("add_user.html", "Username already exists")
    /\ Cardinality(DOMAIN users) >= 1

Deactivated == "Your account has been deactivated. Please contact admin."

\* the account a login form names (usernames are unique: C9)
Named(f) == {i \in DOMAIN users : users[i].username = f["username"]}

Matches(f) ==
    \E i \in Named(f) : users[i].password = generate_password_hash(f["password"])

\* a session for c is established by this step
Established(c) == session'[c] # session[c] /\ "user_id" \in DOMAIN session'[c]

\* C10 (as claimed): without a session, a login that names an inactive user
\* fails with AccountDeactivated; one that names no user or gives a wrong
\* password fails with InvalidCredentials; neither establishes a session, and
\* a session is established only for an existing, active user whose password
\* matches.
C10_LoginOutcomesAsClaimed ==
    [][\A c \in Clients, f \in LoginForms :
          ( ~LoggedIn(c) /\ {"username", "password"} \subseteq DOMAIN f
            /\ login(c, "POST", f) )
          => /\ (\E i \in Named(f) : ~users[i].is_active)
                  => resp' = Render("login.html", Deactivated) /\ session' = session
             /\ (Named(f) = {} \/ ~Matches(f))
                  => /\ resp' = Render("login.html", "Invalid username or password")
                     /\ session' = session
             /\ Established(c)
                  => \E i \in Named(f) :
                        /\ Matches(f) /\ users[i].is_active
                        /\ session'[c] = [user_id |-> i, user |-> users[i].username,
                                          role |-> users[i].role]]_vars

\* C10 (amended): as claimed, but AccountDeactivated is the answer only when
\* the password of the inactive user matches; with a wrong password the
\* answer is InvalidCredentials, active or not.
C10_LoginOutcomes ==
    [][\A c \in Clients, f \in LoginForms :
          ( ~LoggedIn(c) /\ {"username", "password"} \subseteq DOMAIN f
            /\ login(c, "POST", f) )
          => /\ (Matches(f) /\ \E i \in Named(f) : ~users[i].is_active)
                  => resp' = Render("login.html", Deactivated) /\ session' = session
             /\ (Named(f) = {} \/ ~Matches(f))
                  => /\ resp' = Render("login.html", "Invalid username or password")
                     /\ session' = session
             /\ Established(c)
                  => \E i \in Named(f) :
                        /\ Matches(f) /\ users[i].is_active
                        /\ session'[c] = [user_id |-> i, user |-> users[i].username,
                                          role |-> users[i].role]
             /\ (Matches(f) /\ \E i \in Named(f) : users[i].is_active)
                  => Established(c)]_vars

\* an inactive user has given the right password and has been turned away
C10_DeactivatedRefused ==
    /\ resp = Render("login.html", Deactivated)
    /\ \E i \in DOMAIN users : ~users[i].is_active

\* C11: when an admin deletes a bill, that Bill row and every BillItem whose
\* bill_id is its id are removed, every other bill and every other item stay
\* as they are, and no tile changes: the quantity the bill took from stock is
\* not put back.
C11_DeleteBillFrame ==
    [][\A c \in Clients, b \in BillIds :
          ( IsAdminSession(c) /\ b \in DOMAIN bills /\ delete_bill(c, b) )
          => /\ DOMAIN bills' = DOMAIN bills \ {b}
             /\ \A o \in DOMAIN bills' : bills'[o] = bills[o]
             /\ DOMAIN items' = {i \in DOMAIN items : items[i].bill_id # b}
             /\ \A i \in DOMAIN items' : items'[i] = items[i]
             /\ tiles' = tiles]_vars

\* the only bill has been deleted with its items, and the stock it took from
\* tile A is still missing
C11_DeletedNotRestocked ==
    /\ resp = Redirect("/history", "Bill deleted successfully")
    /\ bills = NoRows
    /\ items = NoRows
    /\ 1 \in DOMAIN tiles
    /\ tiles[1].quantity < TileA.quantity

\* C12: when an admin edits a bill with a well-formed form, the bill gets the
\* posted customer, gst and discount and the total
\* subtotal + subtotal*gst/100 - discount, subtotal being the sum of the totals
\* of the BillItems persisted for that bill; no BillItem, no other bill and no
\* tile changes (the lines are not allocated again against the stock).
C12_EditBillFrame ==
    [][\A c \in Clients, b \in BillIds, f \in EditBillForms :
          ( IsAdminSession(c) /\ b \in DOMAIN bills /\ bill_form_error(f) = ""
            /\ edit_bill(c, b, "POST", f) )
          => LET s == SumTotals({i \in DOMAIN items : items[i].bill_id = b})
                 g == ParseNumber(f["gst"])
                 d == ParseNumber(f["discount"])
             IN  /\ DOMAIN bills' = DOMAIN bills
                 /\ bills'[b].customer_name = f["customer_name"]
                 /\ bills'[b].gst = g
                 /\ bills'[b].discount = d
                 /\ bills'[b].total = 100 * s + s * g - 100 * d
                 /\ \A o \in DOMAIN bills \ {b} : bills'[o] = bills[o]
                 /\ items' = items
                 /\ tiles' = tiles]_vars

\* a bill of 7 tiles at 100 has been edited to gst 7 and discount 20: its
\* total is 700 + 49 - 20, its line is as billed, and tile A has fewer tiles
\* left than the line holds
C12_EditedAfterSale ==
    /\ resp = Redirect("/history", "Bill updated successfully")
    /\ 1 \in DOMAIN tiles
    /\ \E b \in DOMAIN bills, i \in DOMAIN items :
          /\ bills[b].customer_name = T_Sita
          /\ bills[b].gst = 7
          /\ bills[b].total = 72900
          /\ items[i].bill_id = b
          /\ items[i].quantity = 7
          /\ items[i].quantity > tiles[1].quantity

=============================================================================
